---- MODULE Spec2Model ----
(***************************************************************************)
(* `jj op log`: the rendering pipeline of cli/src/commands/operation/log.rs *)
(* (do_op_log and get_node_template) as a state machine.  One action per   *)
(* statement of do_op_log; pc is the position inside the function.         *)
(*                                                                         *)
(* Option<T> is the set of at most one element: {} is None, {v} is Some(v).*)
(* Text is a sequence of one-character strings; "\n" is the terminator.    *)
(***************************************************************************)
EXTENDS Integers, Sequences, FiniteSets, TLC

\* ------------------------------------------------------------------ bounds
\* Largest number of operations in the operation store.
MaxOps == 3
\* Largest value given to -n / -l.
MaxLimit == 2
\* How many node-symbol evaluations of one run may fail.
MaxNodeFails == 1

\* usize::MAX (line 126), scaled to the integers TLC has; it is only ever
\* compared with and decremented below the number of operations.
UsizeMax == 2147483647

\* ------------------------------------------------------------------ values
None == {}
Some(v) == {v}
IsSome(o) == o # {}
Unwrap(o) == CHOOSE v \in o : TRUE
\* Option::or
OptOr(a, b) == IF IsSome(a) THEN a ELSE b
\* Option::unwrap_or
UnwrapOr(o, d) == IF IsSome(o) THEN Unwrap(o) ELSE d

NL == "\n"
Min(a, b) == IF a < b THEN a ELSE b
Max(a, b) == IF a > b THEN a ELSE b

\* Operation ids, newest first.
OpNames == <<"A", "B", "C", "D", "E">>

\* Template sources.  "bad" does not parse; the others differ in how many
\* line terminators end what they render.
TemplateSources == {"bad", "empty", "id", "id_nl", "id_nl_nl", "words"}

\* Terminal widths LogContentFormat::new can find: narrow enough for a graph
\* column to leave one cell, or none, to the content.
TermWidths == {3}

\* The operation store's history as walk_ancestors yields it: entry i of a
\* linear history has the next entry as its only parent; in a merge history
\* the head has two parents.
LinearHistory(n) ==
    [i \in 1..n |-> [id |-> OpNames[i],
                     parents |-> IF i < n THEN <<OpNames[i + 1]>> ELSE <<>>]]

MergeHistory(n) ==
    [i \in 1..n |->
        [id |-> OpNames[i],
         parents |-> IF i = 1 THEN <<OpNames[2], OpNames[3]>>
                     ELSE IF i \in {2, 3} /\ n >= 4 THEN <<OpNames[4]>>
                     ELSE IF i >= 4 /\ i < n THEN <<OpNames[i + 1]>>
                     ELSE <<>>]]

Histories ==
    {LinearHistory(n) : n \in 0..MaxOps} \cup {MergeHistory(n) : n \in 3..MaxOps}

\* OperationLogArgs: every value of the struct.  (clap refuses a command line
\* that gives both -n and -l; do_op_log takes whatever the struct holds.)
OperationLogArgs ==
    [limit : {None} \cup {Some(n) : n \in 0..MaxLimit},
     deprecated_limit : {None} \cup {Some(n) : n \in 0..MaxLimit},
     no_graph : BOOLEAN,
     template : {None} \cup {Some(s) : s \in TemplateSources}]

\* The settings do_op_log reads.  A key holds a value, is absent
\* ("NotFound") or holds a value of the wrong type ("TypeError").
Settings ==
    [op_log : {"NotFound", "id_nl"},
     op_log_node : {"NotFound", "TypeError", "node", "bad"},
     graph_style : {"ascii", "curved", "invalid"}]

\* Results of do_op_log.
Running == [kind |-> "Running", at |-> "-"]
\* Faulty variant of Ok: the end of the stream is reported as a failure.
OkAsFailure == [kind |-> "StoreError", at |-> "-"]
Ok == [kind |-> "Ok", at |-> "-"]
Err(kind, at) == [kind |-> kind, at |-> at]

VARIABLES
    pc,             \* position in do_op_log
    args,           \* &OperationLogArgs
    settings,       \* workspace_env.settings()
    history,        \* the operations walk_ancestors(current_op) can yield
    result,         \* what do_op_log returned (Running until it returns)
    graph_style,    \* Option<GraphStyle>
    content_width,  \* Option: with_content_format's width
    text,           \* Option: the content template's source
    template,       \* Option: the compiled content template
    node_text,      \* Option: the node template's source
    op_node_template, \* Option: the compiled node template
    pager,          \* ui.request_pager() was called
    warnings,       \* lines written to ui.warning_default()
    limit,          \* Option<usize>: the local `limit`
    take_n,         \* Take's remaining count
    fetched,        \* how many items the ancestor walk has produced
    op,             \* Option: the loop variable `op`
    edges,          \* the local `edges`
    within_width,   \* Option: within_graph's width
    buffer,         \* the local `buffer`
    node_symbol,    \* Option: the local `node_symbol`
    columns,        \* the graph drawer's open columns (ids awaited)
    sink,           \* blocks written to the output formatter
    log             \* observation: calls made on collaborators, in order

vars == <<pc, args, settings, history, result, graph_style, content_width,
          text, template, node_text, op_node_template, pager, warnings,
          limit, take_n, fetched, op, edges, within_width, buffer,
          node_symbol, columns, sink, log>>

\* ------------------------------------------------------------ observation
\* One record per call on a collaborator (settings, template parser, pager,
\* warning channel, ancestor walk, templates, graph drawer, output).
\* id: the key, source or operation id; n: a width; ok: the call succeeded.
Ev(kind, id, e, sym, content, n, ok) ==
    [kind |-> kind, id |-> id, edges |-> e, sym |-> sym, content |-> content,
     n |-> n, ok |-> ok]
EvKey(kind, key, ok) == Ev(kind, key, <<>>, "", <<>>, 0, ok)

\* ------------------------------------------------------- pure functions
\* Faulty variant of Question: a failure inside the loop skips the entry
\* and goes on with the next one.
QuestionSkipsEntry(ok, cont) ==
    IF ok THEN cont
    ELSE IF cont \in {"edges", "normalize", "graph_next"} THEN "graph_next"
    ELSE IF cont \in {"flat_write", "flat_next"} THEN "flat_next"
    ELSE "done"

\* Faulty variant of Question: a template that does not parse is not
\* reported when it is parsed.
QuestionDefersCompile(ok, cont) ==
    IF ok \/ cont \in {"node_template", "request_pager"} THEN cont ELSE "done"

\* `?`: go on at `cont` on success, return from do_op_log on failure.
Question(ok, cont) == IF ok THEN cont ELSE "done"

\* Faulty variant of TemplateText: the settings win over -T.
TemplateTextConfigFirst(a, s) ==
    IF s.op_log # "NotFound" THEN [ok |-> TRUE, val |-> s.op_log, read |-> TRUE]
    ELSE IF IsSome(a.template)
         THEN [ok |-> TRUE, val |-> Unwrap(a.template), read |-> TRUE]
    ELSE [ok |-> FALSE, val |-> "", read |-> TRUE]

\* Lines 101-104: the text of the content template.  ok = FALSE is the
\* ConfigError of get_string.
TemplateText(a, s) ==
    IF IsSome(a.template) THEN [ok |-> TRUE, val |-> Unwrap(a.template), read |-> FALSE]
    ELSE IF s.op_log = "NotFound" THEN [ok |-> FALSE, val |-> "", read |-> TRUE]
    ELSE [ok |-> TRUE, val |-> s.op_log, read |-> TRUE]

\* Faulty variant of get_node_template: the two built-in names are swapped.
get_node_template_swapped(style, s) ==
    IF s.op_log_node = "TypeError" THEN [ok |-> FALSE, val |-> ""]
    ELSE IF s.op_log_node # "NotFound" THEN [ok |-> TRUE, val |-> s.op_log_node]
    ELSE [ok |-> TRUE, val |-> IF style = "ascii" THEN "builtin_op_log_node"
                               ELSE "builtin_op_log_node_ascii"]

\* Lines 162-176.  `.optional()?` turns NotFound into None and keeps every
\* other ConfigError.
get_node_template(style, s) ==
    IF s.op_log_node = "TypeError" THEN [ok |-> FALSE, val |-> ""]
    ELSE LET symbol == IF s.op_log_node = "NotFound" THEN None ELSE Some(s.op_log_node)
             default == IF style = "ascii" THEN "builtin_op_log_node_ascii"
                        ELSE "builtin_op_log_node"
         IN  [ok |-> TRUE, val |-> UnwrapOr(symbol, default)]

\* parse_template: which sources compile.
Parses(src) == src # "bad"

\* Faulty variant of Limit: -l wins over -n.
LimitDeprecatedFirst(a) == UnwrapOr(OptOr(a.deprecated_limit, a.limit), UsizeMax)

\* Line 126.
Limit(a) == UnwrapOr(OptOr(a.limit, a.deprecated_limit), UsizeMax)

\* Faulty variant of WarnsDeprecated: the advisory is never written.
WarnsNever(a) == FALSE

\* Line 120.
WarnsDeprecated(a) == IsSome(a.deprecated_limit)

\* Faulty variants of TakePulls: the count is ignored; the count is checked
\* after the item is asked for.
TakePullsAlways(n) == TRUE
TakePullsOneMore(n) == n # -1

\* Iterator::take(n).next(): Take hands out the inner iterator's next item
\* while its count is not zero, and counts every item it asks for.
TakePulls(n) == n # 0

\* Faulty variants of ModeBranch and of Edges: the graph loop is always
\* taken; only the first parent gets an edge.
ModeBranchAlwaysGraph(a) == "graph_next"
EdgesFirstParentOnly(o) ==
    [i \in 1..Min(1, Len(o.parents)) |-> [kind |-> "Direct", target |-> o.parents[i]]]

\* Line 128: `if !args.no_graph`.
ModeBranch(a) == IF ~a.no_graph THEN "graph_next" ELSE "flat_next"

\* Lines 132-135: one Direct edge per parent id, in order.
Edges(o) == [i \in 1..Len(o.parents) |-> [kind |-> "Direct", target |-> o.parents[i]]]

\* Faulty variant of Normalize: the buffer is passed on as rendered.
NormalizeNever(buf) == buf

\* Faulty variant of Normalize: a terminator is appended whatever the end.
NormalizeAlways(buf) == Append(buf, NL)

\* Lines 141-143.
Normalize(buf) ==
    IF Len(buf) = 0 \/ buf[Len(buf)] # NL THEN Append(buf, NL) ELSE buf

\* Faulty variant of AddNodeCall: the node is drawn under its first parent's id.
AddNodeCallParent(o, e, sym, buf) ==
    Ev("add_node", IF Len(o.parents) > 0 THEN o.parents[1] ELSE o.id, e, sym, buf, 0, TRUE)

\* Lines 145-150: what add_node is called with.
AddNodeCall(o, e, sym, buf) == Ev("add_node", o.id, e, sym, buf, 0, TRUE)

\* Faulty variant of WidthCall: the width is asked before the edges are built.
WidthCallNoEdges(o, e, w) == Ev("width", o.id, <<>>, "", <<>>, w, TRUE)

\* Line 137: what graph.width is asked.
WidthCall(o, e, w) == Ev("width", o.id, e, "", <<>>, w, TRUE)

\* ----------------------------------------------- collaborators (contracts)
\* What a compiled content template writes for an operation.
Format(src, o) ==
    CASE src = "empty"    -> <<>>
      [] src = "id"       -> <<o.id>>
      [] src = "id_nl"    -> <<o.id, NL>>
      [] src = "id_nl_nl" -> <<o.id, NL, NL>>
      [] src = "words"    -> <<o.id, " ", o.id, NL>>

\* What a compiled node template writes.
FormatNode(src, o, head) ==
    CASE src = "builtin_op_log_node_ascii" -> IF o.id = head THEN "@" ELSE "o"
      [] src = "builtin_op_log_node"       -> IF o.id = head THEN "@" ELSE "O"
      [] OTHER                             -> "*"

\* LogContentFormat: greedy word wrap to w columns; a space is turned into a
\* line break when the word after it would pass column w.
RECURSIVE WordLen(_, _)
WordLen(t, i) ==
    IF i > Len(t) \/ t[i] \in {" ", NL} THEN 0 ELSE 1 + WordLen(t, i + 1)

RECURSIVE WrapFrom(_, _, _, _)
WrapFrom(t, i, col, w) ==
    IF i > Len(t) THEN <<>>
    ELSE IF t[i] = NL THEN <<NL>> \o WrapFrom(t, i + 1, 0, w)
    ELSE IF t[i] = " " /\ col + 1 + WordLen(t, i + 1) > w
         THEN <<NL>> \o WrapFrom(t, i + 1, 0, w)
    ELSE <<t[i]>> \o WrapFrom(t, i + 1, col + 1, w)

Wrap(t, w) == WrapFrom(t, 1, 0, w)

\* LogContentFormat::sub_width.
SubWidth(total, column) == Max(0, total - column)

\* Faulty variant of WithinGraph: the graph column is not taken off.
WithinGraphFullWidth(total, column) == total

\* Line 137: within_graph = with_content_format.sub_width(graph.width(..)).
WithinGraph(total, column) == SubWidth(total, column)

\* The graph drawer: the columns open once a node is placed, and the width
\* of the graph column for a node about to be placed (two cells a column).
Targets(e) == {e[i].target : i \in 1..Len(e)}
ColumnsAfter(cols, id, e) == (cols \ {id}) \cup Targets(e)
GraphWidth(cols, id, e) ==
    2 * Max(Cardinality(cols \cup {id}), Cardinality(ColumnsAfter(cols, id, e)))

\* ------------------------------------------------------------------- Init
Init ==
    /\ pc = "graph_style"
    /\ args \in OperationLogArgs
    /\ settings \in Settings
    /\ history \in Histories
    /\ result = Running
    /\ graph_style = None
    /\ content_width = None
    /\ text = None
    /\ template = None
    /\ node_text = None
    /\ op_node_template = None
    /\ pager = FALSE
    /\ warnings = <<>>
    /\ limit = None
    /\ take_n = 0
    /\ fetched = 0
    /\ op = None
    /\ edges = <<>>
    /\ within_width = None
    /\ buffer = <<>>
    /\ node_symbol = None
    /\ columns = {}
    /\ sink = <<>>
    /\ log = <<>>

\* A step of do_op_log that may return: the statement succeeded (ok) and
\* goes on at cont, or failed with err.
Step(ok, cont, err) ==
    LET nxt == Question(ok, cont)
    IN  /\ pc' = nxt
        /\ result' = IF nxt = "done" THEN err ELSE result

inputs == <<args, settings, history>>
setup == <<graph_style, content_width, text, template, node_text,
           op_node_template, pager, warnings, limit>>
locals == <<op, edges, within_width, buffer, node_symbol>>

\* ------------------------------------------------------------ lines 87-125
\* Line 90.
GraphStyleFromSettings ==
    /\ pc = "graph_style"
    /\ LET ok == settings.graph_style # "invalid"
       IN  /\ Step(ok, "content_format", Err("ConfigError", "ui.graph.style"))
           /\ graph_style' = IF ok THEN Some(settings.graph_style) ELSE None
           /\ log' = Append(log, EvKey("config", "ui.graph.style", ok))
    /\ UNCHANGED <<inputs, content_width, text, template, node_text,
                   op_node_template, pager, warnings, limit, take_n, fetched,
                   locals, columns, sink>>

\* Line 91: the terminal width is found, or the settings are rejected.
LogContentFormatNew ==
    /\ pc = "content_format"
    /\ \/ \E w \in TermWidths :
            /\ Step(TRUE, "template_text", Ok)
            /\ content_width' = Some(w)
       \/ /\ Step(FALSE, "template_text", Err("ConfigError", "ui.log-word-wrap"))
          /\ content_width' = None
    /\ UNCHANGED <<inputs, graph_style, text, template, node_text,
                   op_node_template, pager, warnings, limit, take_n, fetched,
                   locals, columns, sink, log>>

\* Lines 101-104.
GetTemplateText ==
    /\ pc = "template_text"
    /\ LET r == TemplateText(args, settings)
       IN  /\ Step(r.ok, "parse_template", Err("ConfigError", "templates.op_log"))
           /\ text' = IF r.ok THEN Some(r.val) ELSE None
           /\ log' = IF r.read THEN Append(log, EvKey("config", "templates.op_log", r.ok))
                     ELSE log
    /\ UNCHANGED <<inputs, graph_style, content_width, template, node_text,
                   op_node_template, pager, warnings, limit, take_n, fetched,
                   locals, columns, sink>>

\* Lines 105-107.
ParseTemplate ==
    /\ pc = "parse_template"
    /\ LET src == Unwrap(text)
           ok == Parses(src)
       IN  /\ Step(ok, "node_template", Err("TemplateCompileError", "op_log"))
           /\ template' = IF ok THEN Some(src) ELSE None
           /\ log' = Append(log, EvKey("compile", src, ok))
    /\ UNCHANGED <<inputs, graph_style, content_width, text, node_text,
                   op_node_template, pager, warnings, limit, take_n, fetched,
                   locals, columns, sink>>

\* Line 111 (the argument of the second parse_template is evaluated first).
GetNodeTemplate ==
    /\ pc = "node_template"
    /\ LET r == get_node_template(Unwrap(graph_style), settings)
       IN  /\ Step(r.ok, "parse_node_template",
                   Err("ConfigError", "templates.op_log_node"))
           /\ node_text' = IF r.ok THEN Some(r.val) ELSE None
           /\ log' = Append(log, EvKey("config", "templates.op_log_node", r.ok))
    /\ UNCHANGED <<inputs, graph_style, content_width, text, template,
                   op_node_template, pager, warnings, limit, take_n, fetched,
                   locals, columns, sink>>

\* Lines 108-114.
ParseNodeTemplate ==
    /\ pc = "parse_node_template"
    /\ LET src == Unwrap(node_text)
           ok == Parses(src)
       IN  /\ Step(ok, "request_pager", Err("TemplateCompileError", "node"))
           /\ op_node_template' = IF ok THEN Some(src) ELSE None
           /\ log' = Append(log, EvKey("compile", src, ok))
    /\ UNCHANGED <<inputs, graph_style, content_width, text, template, node_text,
                   pager, warnings, limit, take_n, fetched, locals, columns, sink>>

\* Lines 117-119.
RequestPager ==
    /\ pc = "request_pager"
    /\ pc' = "warn"
    /\ pager' = TRUE
    /\ log' = Append(log, EvKey("pager", "", TRUE))
    /\ UNCHANGED <<inputs, result, graph_style, content_width, text, template,
                   node_text, op_node_template, warnings, limit, take_n, fetched,
                   locals, columns, sink>>

\* Lines 120-125: writeln! to the warning channel can fail.
DeprecationWarning ==
    /\ pc = "warn"
    /\ IF WarnsDeprecated(args)
       THEN \E ok \in BOOLEAN :
               /\ Step(ok, "limit", Err("IoError", "warning"))
               /\ warnings' = IF ok THEN Append(warnings, "deprecated -l") ELSE warnings
               /\ log' = Append(log, EvKey("warn", "", ok))
       ELSE /\ Step(TRUE, "limit", Ok)
            /\ UNCHANGED <<warnings, log>>
    /\ UNCHANGED <<inputs, graph_style, content_width, text, template, node_text,
                   op_node_template, pager, limit, take_n, fetched, locals,
                   columns, sink>>

\* Lines 126-127: the limit, and the lazy iterator (nothing is fetched yet).
TakeLimit ==
    /\ pc = "limit"
    /\ pc' = "mode"
    /\ limit' = Some(Limit(args))
    /\ take_n' = Limit(args)
    /\ UNCHANGED <<inputs, result, graph_style, content_width, text, template,
                   node_text, op_node_template, pager, warnings, fetched, locals,
                   columns, sink, log>>

\* Lines 128-129 and 152: the mode; in graph mode the drawer is created.
SelectMode ==
    /\ pc = "mode"
    /\ pc' = ModeBranch(args)
    /\ columns' = {}
    /\ UNCHANGED <<inputs, result, setup, take_n, fetched, locals, sink, log>>

\* ----------------------------------------------------------- lines 127-157
\* `for op in iter { let op = op?; ...`: Take asks the ancestor walk for its
\* next item unless its count is used up; the walk ends, or yields an
\* operation, or yields a store error.  When the iterator ends the loop is
\* left and line 159 returns Ok(()).
IterNext(body) ==
    IF ~TakePulls(take_n)
    THEN /\ pc' = "done"
         /\ result' = Ok
         /\ UNCHANGED <<take_n, fetched, op, log>>
    ELSE /\ take_n' = take_n - 1
         /\ IF fetched = Len(history)
            THEN /\ pc' = "done"
                 /\ result' = Ok
                 /\ log' = Append(log, EvKey("fetch_end", "", TRUE))
                 /\ UNCHANGED <<fetched, op>>
            ELSE /\ fetched' = fetched + 1
                 /\ \E ok \in BOOLEAN :
                      /\ Step(ok, body, Err("StoreError", history[fetched + 1].id))
                      /\ op' = IF ok THEN Some(history[fetched + 1]) ELSE op
                      /\ log' = Append(log, EvKey("fetch", history[fetched + 1].id, ok))

\* Lines 130-131.
GraphNext ==
    /\ pc = "graph_next"
    /\ IterNext("edges")
    /\ UNCHANGED <<inputs, setup, edges, within_width, buffer, node_symbol,
                   columns, sink>>

\* Lines 132-135.
BuildEdges ==
    /\ pc = "edges"
    /\ pc' = "width"
    /\ edges' = Edges(Unwrap(op))
    /\ UNCHANGED <<inputs, result, setup, take_n, fetched, op, within_width,
                   buffer, node_symbol, columns, sink, log>>

\* Lines 136-137: the empty buffer, and within_graph from graph.width().
QueryWidth ==
    /\ pc = "width"
    /\ pc' = "render"
    /\ buffer' = <<>>
    /\ LET w == GraphWidth(columns, Unwrap(op).id, edges)
       IN  /\ within_width' = Some(WithinGraph(Unwrap(content_width), w))
           /\ log' = Append(log, WidthCall(Unwrap(op), edges, w))
    /\ UNCHANGED <<inputs, result, setup, take_n, fetched, op, edges,
                   node_symbol, columns, sink>>

\* Lines 138-140: the content template is rendered into the buffer.
RenderContent ==
    /\ pc = "render"
    /\ \E ok \in BOOLEAN :
         LET o == Unwrap(op)
             out == IF ok THEN Wrap(Format(Unwrap(template), o), Unwrap(within_width))
                    ELSE <<>>
         IN  /\ Step(ok, "normalize", Err("TemplateRenderError", o.id))
             /\ buffer' = out
             /\ log' = Append(log, Ev("render", o.id, <<>>, "", out,
                                      Unwrap(within_width), ok))
    /\ UNCHANGED <<inputs, setup, take_n, fetched, op, edges, within_width,
                   node_symbol, columns, sink>>

\* Lines 141-143.
NormalizeBuffer ==
    /\ pc = "normalize"
    /\ pc' = "node_symbol"
    /\ buffer' = Normalize(buffer)
    /\ UNCHANGED <<inputs, result, setup, take_n, fetched, op, edges,
                   within_width, node_symbol, columns, sink, log>>

NodeFails == Cardinality({i \in 1..Len(log) : log[i].kind = "node" /\ ~log[i].ok})

\* Line 144: format_template returns a String and has no error to return.
\* When evaluating the node template fails for the operation, the failure
\* ends up inside the returned text, or format_template panics.
FormatNodeSymbol ==
    /\ pc = "node_symbol"
    /\ LET o == Unwrap(op)
           head == history[1].id
       IN  \/ /\ pc' = "add_node"
              /\ node_symbol' = Some(FormatNode(Unwrap(op_node_template), o, head))
              /\ log' = Append(log, Ev("node", o.id, <<>>, Unwrap(node_symbol'),
                                       <<>>, 0, TRUE))
              /\ UNCHANGED result
           \/ /\ NodeFails < MaxNodeFails
              /\ pc' = "add_node"
              /\ node_symbol' = Some("<Error>")
              /\ log' = Append(log, Ev("node", o.id, <<>>, "<Error>", <<>>, 0, FALSE))
              /\ UNCHANGED result
           \/ /\ NodeFails < MaxNodeFails
              /\ pc' = "done"
              /\ result' = Err("Panic", o.id)
              /\ log' = Append(log, Ev("node", o.id, <<>>, "", <<>>, 0, FALSE))
              /\ UNCHANGED node_symbol
    /\ UNCHANGED <<inputs, setup, take_n, fetched, op, edges, within_width,
                   buffer, columns, sink>>

\* Lines 145-150: the drawer draws the node and writes it out, or fails.
AddNode ==
    /\ pc = "add_node"
    /\ \E ok \in BOOLEAN :
         LET o == Unwrap(op)
             call == AddNodeCall(o, edges, Unwrap(node_symbol), buffer)
         IN  /\ Step(ok, "graph_next", Err("DrawerError", o.id))
             /\ log' = Append(log, [call EXCEPT !.ok = ok])
             /\ columns' = IF ok THEN ColumnsAfter(columns, call.id, call.edges)
                           ELSE columns
             /\ sink' = IF ok THEN Append(sink, [id |-> call.id, sym |-> call.sym,
                                                 content |-> call.content])
                        ELSE sink
    /\ UNCHANGED <<inputs, setup, take_n, fetched, locals>>

\* Lines 153-154.
FlatNext ==
    /\ pc = "flat_next"
    /\ IterNext("flat_write")
    /\ UNCHANGED <<inputs, setup, edges, within_width, buffer, node_symbol,
                   columns, sink>>

\* Line 155: the content template is rendered to the output at full width.
FlatWrite ==
    /\ pc = "flat_write"
    /\ \E ok \in BOOLEAN :
         LET o == Unwrap(op)
             out == IF ok THEN Wrap(Format(Unwrap(template), o), Unwrap(content_width))
                    ELSE <<>>
         IN  /\ Step(ok, "flat_next", Err("TemplateRenderError", o.id))
             /\ log' = Append(log, Ev("write", o.id, <<>>, "", out,
                                      Unwrap(content_width), ok))
             /\ sink' = IF ok THEN Append(sink, [id |-> o.id, sym |-> "", content |-> out])
                        ELSE sink
    /\ UNCHANGED <<inputs, setup, take_n, fetched, locals, columns>>

Next ==
    \/ GraphStyleFromSettings
    \/ LogContentFormatNew
    \/ GetTemplateText
    \/ ParseTemplate
    \/ GetNodeTemplate
    \/ ParseNodeTemplate
    \/ RequestPager
    \/ DeprecationWarning
    \/ TakeLimit
    \/ SelectMode
    \/ GraphNext
    \/ BuildEdges
    \/ QueryWidth
    \/ RenderContent
    \/ NormalizeBuffer
    \/ FormatNodeSymbol
    \/ AddNode
    \/ FlatNext
    \/ FlatWrite

Spec == Init /\ [][Next]_vars

\* ============================================================ properties
\* What the observation holds.
IsDrawerCall(e) == e.kind \in {"width", "add_node"}
IsYield(e) == e.kind = "fetch" /\ e.ok
IsAddNode(e) == e.kind = "add_node"
DrawerCalls == SelectSeq(log, IsDrawerCall)
Yielded == SelectSeq(log, IsYield)
AddNodes == SelectSeq(log, IsAddNode)
Ids(s) == [i \in 1..Len(s) |-> s[i].id]
IsPrefix(s, t) == Len(s) <= Len(t) /\ \A i \in 1..Len(s) : s[i] = t[i]
Count(kind) == Cardinality({i \in 1..Len(log) : log[i].kind = kind})

\* Number of line terminators that end a text.
RECURSIVE TrailingNL(_)
TrailingNL(t) ==
    IF Len(t) = 0 \/ t[Len(t)] # NL THEN 0
    ELSE 1 + TrailingNL(SubSeq(t, 1, Len(t) - 1))

\* The limit the command line asks for; -1 when it asks for none.
Unlimited == 0 - 1
AskedLimit ==
    IF args.limit # {} THEN Unwrap(args.limit)
    ELSE IF args.deprecated_limit # {} THEN Unwrap(args.deprecated_limit)
    ELSE Unlimited

\* ---------------------------------------------------------------------- C1
\* C1: the number of rendered blocks never exceeds the limit; when
\* do_op_log returns Ok it is min(limit, number of ancestors), and the number
\* of ancestors when no limit is given (graph mode and flat mode alike).
C1_BlockCount ==
    /\ AskedLimit # Unlimited => Len(sink) <= AskedLimit
    /\ Len(sink) <= Len(history)
    /\ (pc = "done" /\ result = Ok) =>
          Len(sink) = IF AskedLimit = Unlimited THEN Len(history)
                      ELSE Min(AskedLimit, Len(history))

C1_Witness ==
    /\ pc = "done" /\ result = Ok
    /\ args.limit = Some(2) /\ Len(history) = 3 /\ Len(sink) = 2
    /\ ~args.no_graph

\* ---------------------------------------------------------------------- C2
\* C2 as stated: every block written, in graph mode and in flat mode, ends
\* with exactly one line terminator.
C2_ExactlyOneTerminator ==
    \A i \in 1..Len(sink) : TrailingNL(sink[i].content) = 1

\* The render event an add_node call takes its content from.
RenderBefore(i) ==
    log[CHOOSE j \in 1..(i - 1) :
            /\ log[j].kind = "render"
            /\ \A k \in (j + 1)..(i - 1) : log[k].kind # "render"]

\* C2 amended: in graph mode the content given to add_node is never empty
\* and ends with a terminator: one is appended to a rendering that ends
\* with none, and a rendering that ends with one or more is passed on as it
\* is (several terminators stay several).  In flat mode the rendering is
\* written as it is, with the terminators the template gave it.
C2_TerminatorAppendedOnlyIfMissing ==
    /\ \A i \in 1..Len(log) :
          log[i].kind = "add_node" =>
             LET r == RenderBefore(i).content
                 c == log[i].content
             IN  /\ RenderBefore(i).id = log[i].id
                 /\ Len(c) > 0 /\ c[Len(c)] = NL
                 /\ TrailingNL(c) = Max(1, TrailingNL(r))
                 /\ c = IF TrailingNL(r) = 0 THEN r \o <<NL>> ELSE r
    /\ args.no_graph =>
          \A i \in 1..Len(sink) :
             TrailingNL(sink[i].content) =
                TrailingNL(Format(Unwrap(template), history[i]))

C2_Witness ==
    \E i \in 1..Len(log) :
       /\ log[i].kind = "add_node" /\ log[i].ok
       /\ TrailingNL(log[i].content) = 2
       /\ sink # <<>>

\* ---------------------------------------------------------------------- C3
\* C3: in graph mode the n-th add_node call carries the id of the n-th entry
\* the limited ancestor stream yielded: the ids drawn are a prefix of the
\* ids yielded, at most one entry behind, and the ids yielded are the first
\* entries of the history, no more than the limit.
C3_AddNodeInStreamOrder ==
    /\ IsPrefix(Ids(AddNodes), Ids(Yielded))
    /\ ~args.no_graph => Len(Yielded) - Len(AddNodes) <= 1
    /\ Ids(Yielded) = [i \in 1..Len(Yielded) |-> history[i].id]
    /\ AskedLimit # Unlimited => Len(Yielded) <= AskedLimit
    /\ (~args.no_graph /\ pc = "done" /\ result = Ok) =>
          Ids(AddNodes) = Ids(Yielded)

C3_Witness ==
    /\ pc = "done" /\ result = Ok /\ ~args.no_graph
    /\ Len(history) = 3 /\ Len(history[1].parents) = 2
    /\ Ids(AddNodes) = <<"A", "B", "C">>

\* ---------------------------------------------------------------------- C4
\* C4: every add_node call comes right after the one width call for the
\* same id with the same edges, and a width call is followed, if by any
\* drawer call, by add_node for that id and those edges.
C4_WidthThenAddNode ==
    LET d == DrawerCalls
    IN  \A i \in 1..Len(d) :
           /\ d[i].kind = "add_node" =>
                 /\ i > 1
                 /\ d[i - 1].kind = "width"
                 /\ d[i - 1].id = d[i].id
                 /\ d[i - 1].edges = d[i].edges
                 /\ Cardinality({j \in 1..Len(d) :
                        d[j].kind = "width" /\ d[j].id = d[i].id}) = 1
           /\ (d[i].kind = "width" /\ i < Len(d)) =>
                 /\ d[i + 1].kind = "add_node"
                 /\ d[i + 1].id = d[i].id
                 /\ d[i + 1].edges = d[i].edges

C4_Witness ==
    /\ pc = "done" /\ result = Ok
    /\ Len(DrawerCalls) = 6
    /\ Len(DrawerCalls[1].edges) = 2

\* ---------------------------------------------------------------------- C5
\* C5: the ancestor walk is never asked for more items than the limit, and
\* every operation fetched is among the first `limit` of the history.
C5_LazyFetch ==
    /\ AskedLimit # Unlimited =>
          /\ fetched <= AskedLimit
          /\ Count("fetch") + Count("fetch_end") <= AskedLimit
          /\ \A i \in 1..Len(log) :
                log[i].kind = "fetch" =>
                   \E k \in 1..Min(AskedLimit, Len(history)) : history[k].id = log[i].id
    /\ fetched = Count("fetch")

\* Three operations A, B, C in a line, limit 2, flat mode: A and B are
\* written in that order and C was never fetched.
C5_Witness ==
    /\ pc = "done" /\ result = Ok
    /\ args.no_graph /\ AskedLimit = 2 /\ Ids(history) = <<"A", "B", "C">>
    /\ Ids(sink) = <<"A", "B">>
    /\ fetched = 2
    /\ \A i \in 1..Len(log) : log[i].id # "C"

\* ---------------------------------------------------------------------- C6
\* A failure met while iterating: a stream item that is an error, a content
\* rendering that fails, a drawer call that fails.
IsIterFailure(e) == ~e.ok /\ e.kind \in {"fetch", "render", "add_node", "write"}
ErrorOf(e) ==
    CASE e.kind = "fetch"    -> Err("StoreError", e.id)
      [] e.kind = "render"   -> Err("TemplateRenderError", e.id)
      [] e.kind = "write"    -> Err("TemplateRenderError", e.id)
      [] e.kind = "add_node" -> Err("DrawerError", e.id)

C6_ReturnsFirstError ==
    \A i \in 1..Len(log) :
       IsIterFailure(log[i]) =>
          /\ i = Len(log)
          /\ pc = "done"
          /\ result = ErrorOf(log[i])
          /\ fetched >= 1 /\ history[fetched].id = log[i].id
          /\ Count("fetch") = fetched
          /\ Ids(sink) = [j \in 1..(fetched - 1) |-> history[j].id]
          /\ \A j \in 1..Len(log) :
                log[j].kind \in {"width", "render", "node", "add_node", "write"} =>
                   \E k \in 1..fetched : history[k].id = log[j].id

\* C6: the first error met on the k-th entry is what do_op_log returns, at
\* once: it is the last thing that happens, nothing after the k-th entry is
\* fetched, rendered or drawn, the output holds the blocks of entries
\* 1..k-1, and no step ever takes back output already written.
C6_FirstErrorAborts ==
    /\ []C6_ReturnsFirstError
    /\ [][IsPrefix(sink, sink')]_vars

C6_Witness ==
    /\ pc = "done" /\ result = Err("DrawerError", "B")
    /\ Ids(sink) = <<"A">>
    /\ Len(history) = 3 /\ fetched = 2
    /\ AskedLimit = Unlimited

\* ---------------------------------------------------------------------- C7
\* C7 as stated: in graph mode a failure to render either template of an
\* entry (content or node symbol) makes do_op_log return an error, without
\* add_node for that entry and without any later entry.
C7_EitherTemplateFailureAborts ==
    \A i \in 1..Len(log) :
       (log[i].kind \in {"render", "node"} /\ ~log[i].ok) =>
          /\ pc = "done"
          /\ result.kind = "TemplateRenderError"
          /\ \A j \in 1..Len(log) :
                log[j].kind = "add_node" => log[j].id # log[i].id
          /\ history[fetched].id = log[i].id

\* C7 amended: in graph mode a failure to render the content template of an
\* entry makes do_op_log return that error, without add_node for that entry
\* and without any later entry; there is no skip and no continue.  A failure
\* inside the node-symbol template is no error of do_op_log: line 144 has
\* nothing to return, and do_op_log never returns an error for it.
C7_ContentFailureAborts ==
    \A i \in 1..Len(log) :
       /\ (log[i].kind = "render" /\ ~log[i].ok) =>
             /\ i = Len(log)
             /\ pc = "done"
             /\ result = Err("TemplateRenderError", log[i].id)
             /\ \A j \in 1..Len(log) :
                   log[j].kind = "add_node" => log[j].id # log[i].id
             /\ history[fetched].id = log[i].id
       /\ (log[i].kind = "node" /\ ~log[i].ok /\ i = Len(log)) =>
             result.kind \in {"Running", "Panic"}

C7_Witness ==
    /\ pc = "done" /\ result = Err("TemplateRenderError", "B")
    /\ ~args.no_graph
    /\ Ids(AddNodes) = <<"A">>
    /\ Len(history) = 3 /\ fetched = 2 /\ AskedLimit = Unlimited

\* ---------------------------------------------------------------------- C8
PastSetup ==
    pc \in {"request_pager", "warn", "limit", "mode", "graph_next", "edges",
            "width", "render", "normalize", "node_symbol", "add_node",
            "flat_next", "flat_write"}
Compiles == SelectSeq(log, LAMBDA e : e.kind = "compile")

\* C8: both templates are compiled once, before the iteration: whenever
\* do_op_log is past its set-up, or has fetched or written anything, exactly
\* two compilations were made, the content template and then the node
\* template, both successful; a compilation that fails is the last thing
\* that happens, do_op_log returns its error, and nothing was fetched from
\* the ancestor stream, asked of the drawer or written.
C8_CompiledOnceUpFront ==
    /\ Len(Compiles) <= 2
    /\ (PastSetup \/ pager \/ fetched > 0 \/ sink # <<>>) =>
          /\ Len(Compiles) = 2
          /\ Compiles[1].ok /\ Compiles[2].ok
          /\ Compiles[1].id = Unwrap(text) /\ template = text
          /\ Compiles[2].id = Unwrap(node_text) /\ op_node_template = node_text
    /\ \A i \in 1..Len(log) :
          log[i].kind = "compile" =>
             \A j \in 1..i : log[j].kind \in {"config", "compile"}
    /\ \A i \in 1..Len(log) :
          (log[i].kind = "compile" /\ ~log[i].ok) =>
             /\ i = Len(log)
             /\ pc = "done"
             /\ result.kind = "TemplateCompileError"
             /\ fetched = 0 /\ sink = <<>> /\ ~pager
    /\ result.kind = "TemplateCompileError" =>
          /\ fetched = 0
          /\ Count("fetch") + Count("fetch_end") = 0
          /\ Len(DrawerCalls) = 0
          /\ sink = <<>>

C8_Witness ==
    /\ pc = "done" /\ result = Err("TemplateCompileError", "node")
    /\ Len(Compiles) = 2 /\ Compiles[1].ok
    /\ Len(history) = 3

\* ---------------------------------------------------------------------- C9
\* C9: without -T and without templates.op_log in the settings do_op_log
\* fails with a configuration error before anything is fetched from the
\* ancestor stream; with -T its text is the template and templates.op_log
\* is not looked up.
C9_ContentTemplateSource ==
    /\ (args.template = None /\ settings.op_log = "NotFound") =>
          /\ pc \in {"graph_style", "content_format", "template_text", "done"}
          /\ pc = "done" => result.kind = "ConfigError"
          /\ (pc = "done" /\ IsSome(content_width)) =>
                result = Err("ConfigError", "templates.op_log")
          /\ fetched = 0 /\ Count("fetch") + Count("fetch_end") = 0
          /\ sink = <<>>
    /\ IsSome(args.template) =>
          /\ \A i \in 1..Len(log) :
                ~(log[i].kind = "config" /\ log[i].id = "templates.op_log")
          /\ IsSome(text) => text = args.template
          /\ result # Err("ConfigError", "templates.op_log")

C9_Witness ==
    /\ pc = "done" /\ result = Err("ConfigError", "templates.op_log")
    /\ args.template = None /\ settings.op_log = "NotFound"
    /\ Len(history) = 3 /\ fetched = 0

\* --------------------------------------------------------------------- C10
DeprecatedAlone == args.limit = None /\ IsSome(args.deprecated_limit)

\* C10: the limit is args.limit, else args.deprecated_limit, else none; with
\* deprecated_limit alone one advisory is written to the warning channel,
\* before anything is fetched or written to the output, and writing it does
\* not end the run: do_op_log goes on with limit = deprecated_limit.
C10_LimitAndAdvisory ==
    /\ IsSome(limit) =>
          Unwrap(limit) = IF IsSome(args.limit) THEN Unwrap(args.limit)
                          ELSE IF IsSome(args.deprecated_limit)
                               THEN Unwrap(args.deprecated_limit)
                          ELSE UsizeMax
    /\ Len(warnings) <= 1
    /\ Len(warnings) = 1 => IsSome(args.deprecated_limit)
    /\ DeprecatedAlone =>
          /\ (IsSome(limit) \/ fetched > 0 \/ sink # <<>>) => Len(warnings) = 1
          /\ IsSome(limit) => limit = args.deprecated_limit
          /\ (pc = "done" /\ result = Ok) =>
                /\ Len(warnings) = 1
                /\ Len(sink) = Min(Unwrap(args.deprecated_limit), Len(history))
    /\ (Len(log) > 0 /\ log[Len(log)].kind = "warn" /\ log[Len(log)].ok) =>
          /\ result \in {Running, Ok}
          /\ pc = "done" => AskedLimit = 0

C10_Witness ==
    /\ pc = "done" /\ result = Ok
    /\ DeprecatedAlone /\ args.deprecated_limit = Some(1)
    /\ Len(warnings) = 1
    /\ Len(history) = 3 /\ Ids(sink) = <<"A">>

\* --------------------------------------------------------------------- C11
BothLimits == IsSome(args.limit) /\ IsSome(args.deprecated_limit)

C12_FlatModeLeavesDrawerAlone ==
    args.no_graph =>
       /\ \A i \in 1..Len(log) :
             log[i].kind \notin {"width", "add_node", "node", "render"}
       /\ edges = <<>> /\ node_symbol = None /\ within_width = None
       /\ columns = {}
       /\ pc \notin {"graph_next", "edges", "width", "render", "normalize",
                     "node_symbol", "add_node"}
       /\ \A i \in 1..Len(log) :
             log[i].kind = "write" => log[i].n = Unwrap(content_width)
       /\ Ids(sink) = [i \in 1..Len(sink) |-> history[i].id]
       /\ \A i \in 1..Len(sink) :
             /\ sink[i].sym = ""
             /\ sink[i].content =
                   Wrap(Format(Unwrap(template), history[i]), Unwrap(content_width))
       /\ Count("write") <= Len(sink) + 1

C12_Witness ==
    /\ pc = "done" /\ result = Ok /\ args.no_graph
    /\ Len(history) = 3 /\ Len(history[1].parents) = 2
    /\ Ids(sink) = <<"A", "B", "C">>
    /\ template = Some("words")

\* --------------------------------------------------------------------- C13
\* do_op_log is one sequential function: while it has not returned, its next
\* statement is executed.
FairSpec == Spec /\ WF_vars(Next)

AllCallsOk == \A i \in 1..Len(log) : log[i].ok

\* C13: do_op_log always returns; once its set-up is done it returns Ok
\* unless a call fails (a stream item, a rendering, a drawer call), whatever
\* the limit; with no ancestors in flat mode it returns Ok having written
\* nothing.
C13_Terminates ==
    /\ <>(pc = "done")
    /\ []((pc = "done" /\ IsSome(limit) /\ AllCallsOk) => result.kind = "Ok")
    /\ []((pc = "done" /\ IsSome(limit) /\ args.no_graph /\ Len(history) = 0) =>
             (result.kind = "Ok" /\ sink = <<>>))

C13_Witness ==
    /\ pc = "done" /\ result.kind = "Ok"
    /\ args.no_graph /\ Len(history) = 0 /\ sink = <<>>
    /\ AskedLimit = Unlimited /\ Count("fetch_end") = 1

\* --------------------------------------------------------------------- C14
\* The entry of the history with the given id.
EntryOf(id) == history[CHOOSE k \in 1..Len(history) : history[k].id = id]

\* C14: in graph mode the edge list of an entry, as the drawer is given it,
\* has one edge per parent id, each of kind Direct, in the order of the
\* parent ids.
C14_OneDirectEdgePerParent ==
    \A i \in 1..Len(log) :
       log[i].kind \in {"width", "add_node"} =>
          LET e == log[i].edges
              parents == EntryOf(log[i].id).parents
          IN  /\ Len(e) = Len(parents)
              /\ \A k \in 1..Len(e) :
                    e[k].kind = "Direct" /\ e[k].target = parents[k]

\* A merge with two parents and a root have both been drawn.
C14_Witness ==
    /\ pc = "done" /\ result = Ok
    /\ \E i \in 1..Len(log) :
          /\ log[i].kind = "add_node" /\ log[i].id = "A"
          /\ log[i].edges = <<[kind |-> "Direct", target |-> "B"],
                              [kind |-> "Direct", target |-> "C"]>>
    /\ \E i \in 1..Len(log) :
          log[i].kind = "add_node" /\ log[i].id = "C" /\ log[i].edges = <<>>

\* --------------------------------------------------------------------- C15
\* C15: in graph mode every content rendering comes right after the width
\* query for the same entry and is made at max(0, total width - the width
\* that query returned); the content add_node gets for the entry is that
\* rendering (with its terminator), and add_node comes after it.
C15_WidthRederivedPerEntry ==
    \A i \in 1..Len(log) :
       /\ log[i].kind = "render" =>
             /\ i > 1
             /\ log[i - 1].kind = "width"
             /\ log[i - 1].id = log[i].id
             /\ log[i].n = IF Unwrap(content_width) > log[i - 1].n
                           THEN Unwrap(content_width) - log[i - 1].n
                           ELSE 0
             /\ log[i].ok =>
                   log[i].content = Wrap(Format(Unwrap(template), EntryOf(log[i].id)),
                                         log[i].n)
       /\ log[i].kind = "add_node" =>
             /\ i > 3
             /\ log[i - 2].kind = "render" /\ log[i - 2].id = log[i].id
             /\ log[i - 2].ok
             /\ log[i - 3].kind = "width" /\ log[i - 3].id = log[i].id
             /\ log[i].content \in {log[i - 2].content, log[i - 2].content \o <<NL>>}

\* Two entries of one run were rendered at different widths, one of them
\* at width 0.
C15_Witness ==
    \E i, j \in 1..Len(log) :
       /\ log[i].kind = "add_node" /\ log[j].kind = "add_node" /\ i < j
       /\ log[i - 3].n # log[j - 3].n
       /\ log[i - 2].n = 0
       /\ log[j - 2].n > 0

\* --------------------------------------------------------------------- C16
\* C16: the content given to add_node is never empty and ends with a line
\* terminator; a rendering that ends with none, the empty one included, has
\* got exactly one appended, one that ends with a terminator is passed on
\* unchanged, and normalizing once more changes nothing.
C16_NormalizedContent ==
    \A i \in 1..Len(log) :
       log[i].kind = "add_node" =>
          LET r == RenderBefore(i).content
              c == log[i].content
          IN  /\ c # <<>>
              /\ c[Len(c)] = NL
              /\ (r = <<>> \/ r[Len(r)] # NL) => (Len(c) = Len(r) + 1 /\ SubSeq(c, 1, Len(r)) = r)
              /\ (r # <<>> /\ r[Len(r)] = NL) => c = r
              /\ Normalize(c) = c
              /\ Normalize(Normalize(r)) = Normalize(r)

\* The empty rendering was drawn as a single terminator.
C16_Witness ==
    \E i \in 1..Len(log) :
       /\ log[i].kind = "add_node" /\ log[i].ok
       /\ RenderBefore(i).content = <<>>
       /\ log[i].content = <<NL>>

\* --------------------------------------------------------------------- C17
\* C17: get_node_template gives the configured node template when the key is
\* set, whatever the style; when the key is absent, the built-in ASCII name
\* for the ASCII style and the other built-in name otherwise; a
\* configuration error other than absence is returned, not defaulted.
C17_NodeTemplateChoice ==
    /\ IsSome(node_text) =>
          /\ settings.op_log_node \in {"node", "bad"} =>
                node_text = Some(settings.op_log_node)
          /\ (settings.op_log_node = "NotFound" /\ graph_style = Some("ascii")) =>
                node_text = Some("builtin_op_log_node_ascii")
          /\ (settings.op_log_node = "NotFound" /\ graph_style # Some("ascii")) =>
                node_text = Some("builtin_op_log_node")
          /\ settings.op_log_node # "TypeError"
    /\ settings.op_log_node = "TypeError" =>
          /\ node_text = None /\ op_node_template = None
          /\ pc \in {"graph_style", "content_format", "template_text",
                     "parse_template", "node_template", "done"}
          /\ (pc = "done" /\ IsSome(template)) =>
                result = Err("ConfigError", "templates.op_log_node")
    /\ (pc \notin {"graph_style", "content_format", "template_text",
                   "parse_template", "node_template", "done"}) => IsSome(node_text)

C17_Witness ==
    /\ settings.op_log_node = "NotFound" /\ graph_style = Some("curved")
    /\ node_text = Some("builtin_op_log_node")
    /\ pc = "done" /\ result = Ok /\ Len(sink) = 3

\* --------------------------------------------------------------------- C18
IsPullOrWrite(e) == (e.kind = "fetch" /\ e.ok) \/ e.kind \in {"add_node", "write"}
PullsAndWrites == SelectSeq(log, IsPullOrWrite)

\* C18: one entry is in flight at most: pulls from the ancestor stream and
\* writes (add_node in graph mode, the content write in flat mode) alternate,
\* starting with a pull, each write being for the entry just pulled, and a
\* pull that follows a write follows a successful one.
C18_OneEntryInFlight ==
    LET s == PullsAndWrites
    IN  /\ \A i \in 1..Len(s) :
              /\ (i % 2 = 1) => s[i].kind = "fetch"
              /\ (i % 2 = 0) =>
                    /\ s[i].kind \in {"add_node", "write"}
                    /\ s[i].id = s[i - 1].id
                    /\ i < Len(s) => s[i].ok
        /\ fetched - Len(sink) <= 1
        /\ fetched - Len(sink) >= 0
        /\ Count("fetch") - (Count("add_node") + Count("write")) \in {0, 1}

C18_Witness ==
    /\ pc = "done" /\ result = Ok
    /\ Len(PullsAndWrites) = 6
    /\ PullsAndWrites[5].id = "C" /\ PullsAndWrites[6].kind = "add_node"

\* --------------------------------------------------------------------- C19
SetupFailed == result.kind \in {"ConfigError", "TemplateCompileError"}

\* C19: the pager is requested and the advisory written only once the graph
\* style, the content format and both compiled templates are there, the
\* pager first; when the configuration or a template compilation fails, the
\* pager is never requested and no advisory is written, deprecated_limit
\* present or not.
C19_PagerAndAdvisoryAfterSetup ==
    /\ (pager \/ warnings # <<>> \/ Count("pager") + Count("warn") > 0) =>
          /\ IsSome(graph_style) /\ IsSome(content_width)
          /\ IsSome(template) /\ IsSome(op_node_template)
          /\ Len(Compiles) = 2 /\ Compiles[1].ok /\ Compiles[2].ok
          /\ ~SetupFailed
    /\ \A i \in 1..Len(log) :
          /\ log[i].kind = "pager" =>
                /\ Cardinality({j \in 1..(i - 1) : log[j].kind = "compile" /\ log[j].ok}) = 2
                /\ \A j \in 1..(i - 1) : log[j].kind \in {"config", "compile"} /\ log[j].ok
          /\ log[i].kind = "warn" => (i > 1 /\ log[i - 1].kind = "pager")
    /\ pager <=> Count("pager") = 1
    /\ SetupFailed =>
          /\ ~pager /\ warnings = <<>>
          /\ Count("pager") + Count("warn") = 0
          /\ pc = "done"

C19_Witness ==
    /\ pc = "done" /\ result = Err("TemplateCompileError", "node")
    /\ IsSome(args.deprecated_limit)
    /\ ~pager /\ warnings = <<>>

====
